---- MODULE Spec2Model ----
(***************************************************************************)
(* Model of the virtual machine storage plugin of the Archipel agent       *)
(* (archipelagentvirtualmachinestorage/storage.py, TNStorageManagement).   *)
(*                                                                         *)
(* Strings are sequences of one-character strings, so that the Python      *)
(* string operations of the handlers (replace, split, find, +) are computed *)
(* as the code computes them.  A filesystem path is resolved against a     *)
(* fixed directory tree into the sequence of its component names.          *)
(***************************************************************************)
EXTENDS Integers, Sequences, FiniteSets, TLC

VARIABLES
    files,          \* the filesystem: resolved path -> content of the regular file there
    definition,     \* self.entity.definition: the devices of the definition document
    xmppstatus,     \* self.entity.xmppstatus
    xmppstatusshow, \* self.entity.xmppstatusshow
    is_migrating,   \* self.entity.is_migrating
    last,           \* the request handled last, the state it was received in, and what it emitted
    steps           \* the number of steps taken so far

vars == <<files, definition, xmppstatus, xmppstatusshow, is_migrating, last, steps>>

-----------------------------------------------------------------------------
(* Bounds of the model *)

\* the number of steps of a run: requests received and changes of the migration state
MaxSteps == 2

-----------------------------------------------------------------------------
(* Python strings *)

\* the value getAttr returns for an attribute the request does not carry
None == <<"None">>

Digits == {"0", "1", "2", "3", "4", "5", "6", "7", "8", "9"}

DigitValue(c) ==
    CASE c = "0" -> 0 [] c = "1" -> 1 [] c = "2" -> 2 [] c = "3" -> 3 [] c = "4" -> 4
      [] c = "5" -> 5 [] c = "6" -> 6 [] c = "7" -> 7 [] c = "8" -> 8 [] c = "9" -> 9

\* int(s) raises ValueError / TypeError unless s is a string of digits
IsInt(s) == s # None /\ s # <<>> /\ \A i \in 1..Len(s) : s[i] \in Digits

RECURSIVE ParseInt(_)
ParseInt(s) ==
    IF s = <<>> THEN 0
    ELSE 10 * ParseInt(SubSeq(s, 1, Len(s) - 1)) + DigitValue(s[Len(s)])

StartsWith(s, p) == Len(s) >= Len(p) /\ SubSeq(s, 1, Len(p)) = p

\* "".join(new + c for c in s) + new : what str.replace does for an empty pattern
RECURSIVE Interleave(_, _)
Interleave(s, new) ==
    IF s = <<>> THEN new ELSE new \o <<Head(s)>> \o Interleave(Tail(s), new)

\* s.replace(old, new): every non-overlapping occurrence, scanning from the left
RECURSIVE Replace(_, _, _)
Replace(s, old, new) ==
    IF old = <<>> THEN Interleave(s, new)
    ELSE IF s = <<>> THEN <<>>
    ELSE IF StartsWith(s, old)
         THEN new \o Replace(SubSeq(s, Len(old) + 1, Len(s)), old, new)
         ELSE <<Head(s)>> \o Replace(Tail(s), old, new)

RECURSIVE SplitAcc(_, _, _)
SplitAcc(s, sep, cur) ==
    IF s = <<>> THEN <<cur>>
    ELSE IF StartsWith(s, sep)
         THEN <<cur>> \o SplitAcc(SubSeq(s, Len(sep) + 1, Len(s)), sep, <<>>)
         ELSE SplitAcc(Tail(s), sep, Append(cur, Head(s)))

\* s.split(sep) for a non-empty separator
Split(s, sep) == SplitAcc(s, sep, <<>>)

\* s.split(sep)[-1] and s.split(sep)[0]
SplitLast(s, sep) == LET parts == Split(s, sep) IN parts[Len(parts)]
SplitFirst(s, sep) == Split(s, sep)[1]

\* s.split(): the words between runs of whitespace
SplitWords(s) == SelectSeq(Split(s, <<" ">>), LAMBDA w : w # <<>>)

\* s.find(sub) > -1
Find(s, sub) == \E i \in 1..(Len(s) - Len(sub) + 1) : SubSeq(s, i, i + Len(sub) - 1) = sub

Range(s) == {s[i] : i \in 1..Len(s)}

-----------------------------------------------------------------------------
(* The filesystem *)

qcow2 == <<"q", "c", "o", "w", "2">>
raw == <<"r", "a", "w">>

\* self.entity.folder, the machine's private folder
folder == <<"/", "v">>

\* self.configuration.get("STORAGE", "iso_base_path")
iso_base_path == <<"/", "i">>

\* self.shared_isos_folder
shared_isos_folder == iso_base_path \o <<"/">>

\* the working directory of the agent process, against which a relative path resolves
Cwd == << <<"w">> >>

\* the directories that exist, each as the sequence of its component names:
\* the root, the private folder, the shared ISO folder and the working directory
Directories == { <<>>, << <<"v">> >>, << <<"i">> >>, Cwd }

Front(s) == SubSeq(s, 1, Len(s) - 1)

\* path resolution as the kernel does it: a component is looked up in a directory
RECURSIVE Walk(_, _, _)
Walk(comps, i, at) ==
    IF i > Len(comps) THEN [ok |-> TRUE, at |-> at]
    ELSE IF at \notin Directories THEN [ok |-> FALSE, at |-> at]
    ELSE IF comps[i] = <<>> \/ comps[i] = <<".">> THEN Walk(comps, i + 1, at)
    ELSE IF comps[i] = <<".", ".">>
         THEN Walk(comps, i + 1, IF at = <<>> THEN <<>> ELSE Front(at))
         ELSE Walk(comps, i + 1, Append(at, comps[i]))

Resolve(p) ==
    IF p = <<>> THEN [ok |-> FALSE, at |-> <<>>]
    ELSE Walk(Split(p, <<"/">>), 1, IF Head(p) = "/" THEN <<>> ELSE Cwd)

\* p names a regular file of the filesystem fs
IsFile(fs, p) == LET r == Resolve(p) IN r.ok /\ r.at \in DOMAIN fs

IsDirectory(p) == LET r == Resolve(p) IN r.ok /\ r.at \in Directories

\* os.path.isdir(p) in the place of os.path.exists(p): the fault C2_NoOverwrite detects
ExistsAsDirectory(fs, p) == LET r == Resolve(p) IN r.ok /\ r.at \in Directories

\* os.path.exists(p)
Exists(fs, p) == LET r == Resolve(p) IN r.ok /\ (r.at \in DOMAIN fs \/ r.at \in Directories)

\* a file can be written at p: its directory exists and p is not a directory
CanMake(fs, p) ==
    LET r == Resolve(p)
    IN  /\ r.ok
        /\ r.at # <<>>
        /\ Front(r.at) \in Directories
        /\ r.at \notin Directories

\* the filesystem fs with the file at key k removed / with content c written at key k
Without(fs, k) == [x \in DOMAIN fs \ {k} |-> fs[x]]
With(fs, k, c) == [x \in DOMAIN fs \cup {k} |-> IF x = k THEN c ELSE fs[x]]

\* the output of `ls dir`, split into words: the entries whose name does not begin with "."
Ls(fs, dir) ==
    IF ~IsDirectory(dir) THEN {}
    ELSE LET at == Resolve(dir).at
             entries == {k[Len(k)] : k \in {x \in (DOMAIN fs \cup Directories) :
                                                 x # <<>> /\ Front(x) = at}}
             shown == {n \in entries : Head(n) # "."}
         IN UNION {Range(SplitWords(n)) : n \in shown}

-----------------------------------------------------------------------------
(* The external tools: file(1) and qemu-img *)

\* the lower-cased description file(1) prints for a file, by what the file holds
FileDescription(magic) ==
    CASE magic = "qcow" ->
            <<"q", "e", "m", "u", " ", "q", "c", "o", "w", " ", "i", "m", "a", "g", "e",
              " ", "(", "v", "2", ")">>
      [] magic = "raw" -> <<"d", "a", "t", "a">>
      [] magic = "iso" ->
            <<"i", "s", "o", " ", "9", "6", "6", "0", " ", "c", "d", "-", "r", "o", "m",
              " ", "f", "i", "l", "e", "s", "y", "s", "t", "e", "m", " ", "d", "a", "t", "a">>
      [] magic = "sqlite" ->
            <<"s", "q", "l", "i", "t", "e", " ", "3", ".", "x", " ", "d", "a", "t", "a",
              "b", "a", "s", "e">>
      [] magic = "text" -> <<"a", "s", "c", "i", "i", " ", "t", "e", "x", "t">>

\* subprocess.Popen(["file", p]).communicate()[0].lower()
FileCmd(fs, p) ==
    IF IsFile(fs, p) THEN FileDescription(fs[Resolve(p).at].magic)
    ELSE IF IsDirectory(p) THEN <<"d", "i", "r", "e", "c", "t", "o", "r", "y">>
    ELSE <<"c", "a", "n", "n", "o", "t", " ", "o", "p", "e", "n", " ", "(", "n", "o", " ",
           "s", "u", "c", "h", " ", "f", "i", "l", "e", " ", "o", "r", " ", "d", "i", "r",
           "e", "c", "t", "o", "r", "y", ")">>

\* the formats qemu-img is asked for here, and what a file of each holds
ImageFormats == {qcow2, raw}
MagicOf(format) == IF format = qcow2 THEN "qcow" ELSE "raw"

\* the "file format:" line of `qemu-img info`: what is not a known image is probed as raw
InfoFormat(content) == IF content.magic = "qcow" THEN qcow2 ELSE raw

SizeSuffixes == {<<"K">>, <<"M">>, <<"G">>, <<"T">>}

\* qemu-img create -f format path size+unit can end with exit code 0
CreateCanSucceed(fs, format, path, size, unit) ==
    /\ format \in ImageFormats
    /\ IsInt(size)
    /\ unit \in SizeSuffixes
    /\ CanMake(fs, path)

\* qemu-img convert src -O format dest can end with exit code 0
ConvertCanSucceed(fs, src, format, dest) ==
    /\ format \in ImageFormats
    /\ IsFile(fs, src)
    /\ CanMake(fs, dest)

-----------------------------------------------------------------------------
(* Requests, replies and the definition document *)

ARCHIPEL_ERROR_CODE_DRIVES_CREATE == -3001
ARCHIPEL_ERROR_CODE_DRIVES_DELETE == -3002
ARCHIPEL_ERROR_CODE_DRIVES_GET == -3003
ARCHIPEL_ERROR_CODE_DRIVES_GETISO == -3004
ARCHIPEL_ERROR_CODE_DRIVES_CONVERT == -3005
ARCHIPEL_ERROR_CODE_DRIVES_RENAME == -3006
\* imported from archipel.archipelVirtualMachine: a code that is none of the six above
ARCHIPEL_ERROR_CODE_VM_MIGRATING == -43

\* build_error_iq(self, ex, iq, code) and iq.buildReply("result") with its payload
\* an error reply that carries the code of create whatever the handler: the fault
\* C11_OneReplyWithCode detects
ErrorWithCreateCode(code) ==
    [type |-> "error", code |-> ARCHIPEL_ERROR_CODE_DRIVES_CREATE, payload |-> {}]

build_error_iq(code) == [type |-> "error", code |-> code, payload |-> {}]
buildReply(nodes) == [type |-> "result", code |-> 0, payload |-> nodes]
NoReply == [type |-> "none", code |-> 0, payload |-> {}]

\* what handling a request leaves behind: the new state, the reply, and the calls
\* made on the tools, the filesystem and the entity, in the order they were made
Outcome(fs, def, status, show, reply, events) ==
    [files |-> fs, definition |-> def, xmppstatus |-> status, xmppstatusshow |-> show,
     reply |-> reply, events |-> events]

\* a child of the <devices> node: a <disk> with its type attribute, its <target dev=>,
\* its <source file=> and its <driver type=>, or a node of another kind
Device(tag, type, target, hasSource, file, hasDriver, drvType) ==
    [tag |-> tag, type |-> type, target |-> target,
     source |-> [present |-> hasSource, file |-> file],
     driver |-> [present |-> hasDriver, type |-> drvType]]

\* the document is absent (self.entity.definition is None) or holds these devices
Undefined == [defined |-> FALSE, devices |-> <<>>]
Defined(devices) == [defined |-> TRUE, devices |-> devices]

\* an IQ of the namespace: the action and the attributes of its <archipel> node
Iq(action, name, size, unit, format, preallocation, path, newname, undefine) ==
    [action |-> action, name |-> name, size |-> size, unit |-> unit, format |-> format,
     preallocation |-> preallocation, path |-> path, newname |-> newname,
     undefine |-> undefine]

\* .replace(" ", "_").replace("/", "_").replace("..", "_")
Sanitize(name) ==
    Replace(Replace(Replace(name, <<" ">>, <<"_">>), <<"/">>, <<"_">>), <<".", ".">>, <<"_">>)

-----------------------------------------------------------------------------
(* iq_create *)

\* the STORAGE option use_metadata_preallocation of the configuration
use_metadata_preallocation == TRUE

metadata == <<"m", "e", "t", "a", "d", "a", "t", "a">>

\* int(disk_size) raises in the size guard: it is evaluated for the units M and G only
SizeGuardRaises(disk_unit, disk_size) ==
    disk_unit \in {<<"M">>, <<"G">>} /\ ~IsInt(disk_size)

\* a size guard that lets the limits themselves through: the fault C8_TooBigRejected
\* detects
TooBigAboveLimit(disk_unit, disk_size) ==
    \/ disk_unit = <<"M">> /\ ParseInt(disk_size) > 1000000000
    \/ disk_unit = <<"G">> /\ ParseInt(disk_size) > 10000

\* the size guard of iq_create raises "too big"
TooBig(disk_unit, disk_size) ==
    \/ disk_unit = <<"M">> /\ ParseInt(disk_size) >= 1000000000
    \/ disk_unit = <<"G">> /\ ParseInt(disk_size) >= 10000

\* disk_path of iq_create
CreatePath(name, format) == folder \o <<"/">> \o Sanitize(name) \o <<".">> \o format

\* the qemu-img call iq_create makes
CreateCall(format, prealloc) ==
    IF prealloc # None /\ prealloc = metadata /\ format = qcow2 /\ use_metadata_preallocation
    THEN "qemu-img create -o preallocation=metadata"
    ELSE "qemu-img create"

iq_create(iq, env) ==
    LET error(events) ==
            Outcome(files, definition, xmppstatus, xmppstatusshow,
                    build_error_iq(ARCHIPEL_ERROR_CODE_DRIVES_CREATE), events)
    IN  IF iq.name = None \/ iq.format = None THEN error(<<>>)
        ELSE LET disk_path == CreatePath(iq.name, iq.format)
                 call == CreateCall(iq.format, iq.preallocation)
                 ret == IF CreateCanSucceed(files, iq.format, disk_path, iq.size, iq.unit)
                        THEN env.ret ELSE 1
             IN  IF SizeGuardRaises(iq.unit, iq.size) THEN error(<<>>)
                 ELSE IF TooBig(iq.unit, iq.size) THEN error(<<>>)
                 ELSE IF Exists(files, disk_path) THEN error(<<>>)
                 ELSE IF ret # 0 THEN error(<<call>>)
                 ELSE Outcome(With(files, Resolve(disk_path).at,
                                   [magic |-> MagicOf(iq.format), data |-> "blank"]),
                              definition, xmppstatus, xmppstatusshow, buildReply({}),
                              <<call, "shout disk", "push_change disk created">>)

-----------------------------------------------------------------------------
(* iq_convert *)

\* disk_path of iq_convert: path.replace(path.split(".")[-1], "") + format
ConvertPath(path, format) == Replace(path, SplitLast(path, <<".">>), <<>>) \o format

\* the <disk> the loop of iq_convert stops at: the first one with a <source> whose
\* file is path; 0 when there is none
FirstDiskOf(devices, path) ==
    LET hits == {i \in 1..Len(devices) : /\ devices[i].tag = "disk"
                                         /\ devices[i].source.present
                                         /\ devices[i].source.file = path}
    IN  IF hits = {} THEN 0 ELSE CHOOSE i \in hits : \A j \in hits : i <= j

\* a loop without its break, which rewrites every <disk> on path: the fault
\* C7_ConvertTouchesOneEntry detects
RetargetAll(devices, path, format, disk_path) ==
    [i \in 1..Len(devices) |->
        IF devices[i].tag = "disk" /\ devices[i].source.present /\ devices[i].source.file = path
        THEN [devices[i] EXCEPT !.driver.type = IF devices[i].driver.present THEN format ELSE @,
                                !.source.file = disk_path]
        ELSE devices[i]]

\* the devices after the loop of iq_convert has rewritten the <disk> it stops at
Retarget(devices, path, format, disk_path) ==
    LET i == FirstDiskOf(devices, path)
    IN  IF i = 0 THEN devices
        ELSE [devices EXCEPT ![i].driver.type = IF devices[i].driver.present THEN format ELSE @,
                             ![i].source.file = disk_path]

\* a convert that unlinks the source before it runs the tool: the fault
\* C16_ConvertToolFirst detects
ConvertUnlinksFirst(iq, env) ==
    LET old_status == xmppstatus
        old_show == xmppstatusshow
        \* every exit restores the presence: the except clause does it too
        error(fs, def, events) ==
            Outcome(fs, def, old_status, old_show,
                    build_error_iq(ARCHIPEL_ERROR_CODE_DRIVES_CONVERT), events)
    IN  IF iq.path = None \/ iq.format = None
        THEN error(files, definition, <<"change_presence">>)
        ELSE
        LET path == iq.path
            disk_path == ConvertPath(path, iq.format)
            ret == IF ConvertCanSucceed(files, path, iq.format, disk_path) THEN env.ret ELSE 1
            converted == With(files, Resolve(disk_path).at,
                              [magic |-> MagicOf(iq.format), data |-> files[Resolve(path).at].data])
            unlinked == Without(converted, Resolve(path).at)
            devices == Retarget(definition.devices, path, iq.format, disk_path)
            busy == <<"change_presence", "qemu-img convert">>
        IN  IF Exists(files, disk_path) THEN error(files, definition, <<"change_presence">>)
            ELSE IF ret # 0
                 THEN error(Without(files, Resolve(path).at), definition,
                            <<"change_presence", "unlink", "qemu-img convert",
                              "change_presence">>)
            ELSE IF ~IsFile(converted, path)
                 THEN error(converted, definition, busy \o <<"change_presence">>)
            ELSE IF ~definition.defined
                 THEN error(unlinked, definition, busy \o <<"unlink", "change_presence">>)
            ELSE IF FirstDiskOf(definition.devices, path) # 0 /\ ~env.defineOk
                 THEN error(unlinked, Defined(devices),
                            busy \o <<"unlink", "define failed", "change_presence">>)
            ELSE Outcome(unlinked, Defined(devices), old_status, old_show, buildReply({}),
                         busy \o <<"unlink">>
                              \o (IF FirstDiskOf(definition.devices, path) # 0
                                  THEN <<"define">> ELSE <<>>)
                              \o <<"change_presence", "shout disk", "push_change disk converted">>)

iq_convert(iq, env) ==
    LET old_status == xmppstatus
        old_show == xmppstatusshow
        \* every exit restores the presence: the except clause does it too
        error(fs, def, events) ==
            Outcome(fs, def, old_status, old_show,
                    build_error_iq(ARCHIPEL_ERROR_CODE_DRIVES_CONVERT), events)
    IN  IF iq.path = None \/ iq.format = None
        THEN error(files, definition, <<"change_presence">>)
        ELSE
        LET path == iq.path
            disk_path == ConvertPath(path, iq.format)
            ret == IF ConvertCanSucceed(files, path, iq.format, disk_path) THEN env.ret ELSE 1
            converted == With(files, Resolve(disk_path).at,
                              [magic |-> MagicOf(iq.format), data |-> files[Resolve(path).at].data])
            unlinked == Without(converted, Resolve(path).at)
            devices == Retarget(definition.devices, path, iq.format, disk_path)
            busy == <<"change_presence", "qemu-img convert">>
        IN  IF Exists(files, disk_path) THEN error(files, definition, <<"change_presence">>)
            ELSE IF ret # 0 THEN error(files, definition, busy \o <<"change_presence">>)
            ELSE IF ~IsFile(converted, path)
                 THEN error(converted, definition, busy \o <<"change_presence">>)
            ELSE IF ~definition.defined
                 THEN error(unlinked, definition, busy \o <<"unlink", "change_presence">>)
            ELSE IF FirstDiskOf(definition.devices, path) # 0 /\ ~env.defineOk
                 THEN error(unlinked, Defined(devices),
                            busy \o <<"unlink", "define failed", "change_presence">>)
            ELSE Outcome(unlinked, Defined(devices), old_status, old_show, buildReply({}),
                         busy \o <<"unlink">>
                              \o (IF FirstDiskOf(definition.devices, path) # 0
                                  THEN <<"define">> ELSE <<>>)
                              \o <<"change_presence", "shout disk", "push_change disk converted">>)

-----------------------------------------------------------------------------
(* iq_rename *)

\* os.path.join(a, b)
OsPathJoin(a, b) ==
    IF b # <<>> /\ Head(b) = "/" THEN b
    ELSE IF a = <<>> \/ a[Len(a)] = "/" THEN a \o b
    ELSE a \o <<"/">> \o b

\* newpath of iq_rename
RenamePath(path, newname) ==
    OsPathJoin(folder, Sanitize(newname) \o <<".">> \o SplitLast(path, <<".">>))

\* os.rename(src, dst) succeeds, for a dst that does not exist: here no directory can
\* be the source of a rename that succeeds, as the directory its destination would lie
\* in never exists
RenameCanSucceed(fs, src, dst) == IsFile(fs, src) /\ CanMake(fs, dst)

\* the filesystem after os.rename(src, dst)
Renamed(fs, src, dst) == With(Without(fs, Resolve(src).at), Resolve(dst).at, fs[Resolve(src).at])

\* a rename that makes the entries on the old path follow the file and commits the
\* document: the fault C20_RenameKeepsDefinition detects
RenameRetargets(iq, env) ==
    LET error(events) ==
            Outcome(files, definition, xmppstatus, xmppstatusshow,
                    build_error_iq(ARCHIPEL_ERROR_CODE_DRIVES_RENAME), events)
    IN  IF iq.path = None \/ iq.newname = None THEN error(<<>>)
        ELSE LET newpath == RenamePath(iq.path, iq.newname)
                 devices == [i \in 1..Len(definition.devices) |->
                                IF /\ definition.devices[i].tag = "disk"
                                   /\ definition.devices[i].source.present
                                   /\ definition.devices[i].source.file = iq.path
                                THEN [definition.devices[i] EXCEPT !.source.file = newpath]
                                ELSE definition.devices[i]]
             IN  IF Exists(files, newpath) THEN error(<<>>)
                 ELSE IF ~RenameCanSucceed(files, iq.path, newpath) THEN error(<<>>)
                 ELSE Outcome(Renamed(files, iq.path, newpath),
                              [definition EXCEPT !.devices = devices],
                              xmppstatus, xmppstatusshow, buildReply({}),
                              <<"rename", "define", "shout disk", "push_change disk renamed">>)

\* a rename that shouts before it calls os.rename: the fault C12_EmitOnlyOnSuccess
\* detects
RenameShoutsFirst(iq, env) ==
    LET error(events) ==
            Outcome(files, definition, xmppstatus, xmppstatusshow,
                    build_error_iq(ARCHIPEL_ERROR_CODE_DRIVES_RENAME), events)
    IN  IF iq.path = None \/ iq.newname = None THEN error(<<>>)
        ELSE LET newpath == RenamePath(iq.path, iq.newname)
             IN  IF Exists(files, newpath) THEN error(<<>>)
                 ELSE IF ~RenameCanSucceed(files, iq.path, newpath) THEN error(<<"shout disk">>)
                 ELSE Outcome(Renamed(files, iq.path, newpath), definition,
                              xmppstatus, xmppstatusshow, buildReply({}),
                              <<"shout disk", "rename", "push_change disk renamed">>)

iq_rename(iq, env) ==
    LET error(events) ==
            Outcome(files, definition, xmppstatus, xmppstatusshow,
                    build_error_iq(ARCHIPEL_ERROR_CODE_DRIVES_RENAME), events)
    IN  IF iq.path = None \/ iq.newname = None THEN error(<<>>)
        ELSE LET newpath == RenamePath(iq.path, iq.newname)
             IN  IF Exists(files, newpath) THEN error(<<>>)
                 ELSE IF ~RenameCanSucceed(files, iq.path, newpath) THEN error(<<>>)
                 ELSE Outcome(Renamed(files, iq.path, newpath), definition,
                              xmppstatus, xmppstatusshow, buildReply({}),
                              <<"rename", "shout disk", "push_change disk renamed">>)

-----------------------------------------------------------------------------
(* iq_delete *)

yes == <<"y", "e", "s">>

\* any undefine attribute taken for a yes: the fault C5_DeleteKeepsDefinition detects
UndefineGiven(undefine) == undefine # None

\* the test of the undefine attribute in iq_delete
UndefineRequested(undefine) == undefine = yes

\* a path made of the whole name, not of its last segment: the fault
\* C18_DeleteOnlyInFolder detects
DeletePathOfWholeName(disk_name) == folder \o <<"/">> \o disk_name

\* secure_disk_path of iq_delete
DeletePath(disk_name) == folder \o <<"/">> \o SplitLast(disk_name, <<"/">>)

\* devices_node.getTags('disk', attrs={'type': 'file'}), as positions in the devices
DiskNodes(devices) ==
    {i \in 1..Len(devices) : devices[i].tag = "disk" /\ devices[i].type = "file"}

\* the devices without those at the positions in gone
RECURSIVE DelChildren(_, _, _)
DelChildren(devices, gone, i) ==
    IF i > Len(devices) THEN <<>>
    ELSE (IF i \in gone THEN <<>> ELSE <<devices[i]>>) \o DelChildren(devices, gone, i + 1)

\* an undefine loop that stops at the first node it deletes: the fault
\* C4_UndefineRemovesAll detects
UndefineFirst(devices, path) ==
    LET nodes == DiskNodes(devices)
        sourceless == {i \in nodes : ~devices[i].source.present}
        stop == IF sourceless = {} THEN Len(devices) + 1
                ELSE CHOOSE i \in sourceless : \A j \in sourceless : i <= j
        hits == {i \in nodes : i < stop /\ devices[i].source.file = path}
        gone == IF hits = {} THEN {} ELSE {CHOOSE i \in hits : \A j \in hits : i <= j}
    IN  [devices |-> DelChildren(devices, gone, 1),
         have_undefined_at_least_on_disk |-> gone # {},
         raised |-> sourceless # {} /\ hits = {}]

\* the undefine loop of iq_delete: it deletes each disk node whose source file is path,
\* and raises at the first disk node that has no <source>
Undefine(devices, path) ==
    LET nodes == DiskNodes(devices)
        sourceless == {i \in nodes : ~devices[i].source.present}
        stop == IF sourceless = {} THEN Len(devices) + 1
                ELSE CHOOSE i \in sourceless : \A j \in sourceless : i <= j
        gone == {i \in nodes : i < stop /\ devices[i].source.file = path}
    IN  [devices |-> DelChildren(devices, gone, 1),
         have_undefined_at_least_on_disk |-> gone # {},
         raised |-> sourceless # {}]

iq_delete(iq, env) ==
    LET \* the except clause does not restore the presence
        error(fs, def, status, show, events) ==
            Outcome(fs, def, status, show,
                    build_error_iq(ARCHIPEL_ERROR_CODE_DRIVES_DELETE), events)
        busy_status == "Deleting a drive..."
        busy_show == "dnd"
    IN  IF iq.name = None THEN error(files, definition, xmppstatus, xmppstatusshow, <<>>)
        ELSE
        LET secure_disk_path == DeletePath(iq.name)
            unlinked == Without(files, Resolve(secure_disk_path).at)
            und == Undefine(definition.devices, secure_disk_path)
            undefined == [definition EXCEPT !.devices = und.devices]
            done == <<"change_presence", "push_change disk deleted", "shout disk">>
        IN  IF ~IsFile(files, secure_disk_path)
            THEN error(files, definition, busy_status, busy_show, <<"change_presence">>)
            ELSE IF ~UndefineRequested(iq.undefine)
            THEN Outcome(unlinked, definition, xmppstatus, xmppstatusshow, buildReply({}),
                         <<"change_presence", "unlink">> \o done)
            ELSE IF und.raised
            THEN error(unlinked, undefined, busy_status, busy_show,
                       <<"change_presence", "unlink">>)
            ELSE IF und.have_undefined_at_least_on_disk /\ ~env.defineOk
            THEN error(unlinked, undefined, busy_status, busy_show,
                       <<"change_presence", "unlink", "defineXML failed">>)
            ELSE Outcome(unlinked, undefined, xmppstatus, xmppstatusshow, buildReply({}),
                         <<"change_presence", "unlink">>
                            \o (IF und.have_undefined_at_least_on_disk
                                THEN <<"defineXML", "push_change virtualmachine:definition defined">>
                                ELSE <<>>)
                            \o done)

-----------------------------------------------------------------------------
(* iq_get and iq_getiso *)

\* the test iq_get makes on the output of file(1)
LooksLikeDisk(file_cmd_output) ==
    /\ \/ Find(file_cmd_output, <<"f", "o", "r", "m", "a", "t", ":", " ", "q", "c", "o", "w">>)
       \/ Find(file_cmd_output, <<"q", "e", "m", "u", " ", "q", "c", "o", "w", " ", "i", "m", "a", "g", "e">>)
       \/ Find(file_cmd_output, <<"b", "o", "o", "t", " ", "s", "e", "c", "t", "o", "r">>)
       \/ Find(file_cmd_output, <<"v", "m", "w", "a", "r", "e">>)
       \/ Find(file_cmd_output, <<"d", "a", "t", "a">>)
       \/ Find(file_cmd_output, <<"u", "s", "e", "r", "-", "m", "o", "d", "e", " ", "l", "i", "n", "u", "x", " ", "c", "o", "w", " ", "f", "i", "l", "e">>)
    /\ ~Find(file_cmd_output, <<"s", "q", "l", "i", "t", "e">>)

\* the test iq_getiso makes on the output of file(1)
LooksLikeIso(file_cmd_output) ==
    Find(file_cmd_output, <<"i", "s", "o", " ", "9", "6", "6", "0">>)

\* the <disk> nodes iq_get builds (their sizes are left out)
DiskNodesOf(fs) ==
    {[name |-> SplitFirst(disk, <<".">>),
      path |-> folder \o <<"/">> \o disk,
      format |-> InfoFormat(fs[Resolve(folder \o <<"/">> \o disk).at])] :
        disk \in {d \in Ls(fs, folder) : LooksLikeDisk(FileCmd(fs, folder \o <<"/">> \o d))}}

\* a get that shows itself busy and leaves the presence so: the fault
\* C15_ListingsReadOnly detects
GetLeavesBusy(iq, env) ==
    Outcome(files, definition, "Listing the drives...", "dnd",
            buildReply(DiskNodesOf(files)), <<"change_presence">>)

iq_get(iq, env) ==
    Outcome(files, definition, xmppstatus, xmppstatusshow, buildReply(DiskNodesOf(files)), <<>>)

\* the <iso> nodes iq_getiso builds: both loops probe the file in the shared folder
IsoNodesOf(fs) ==
    {[name |-> iso, path |-> folder \o <<"/">> \o iso] :
        iso \in {i \in Ls(fs, folder) :
                    LooksLikeIso(FileCmd(fs, shared_isos_folder \o <<"/">> \o i))}}
    \cup
    {[name |-> iso, path |-> shared_isos_folder \o <<"/">> \o iso] :
        iso \in {i \in Ls(fs, shared_isos_folder) :
                    LooksLikeIso(FileCmd(fs, shared_isos_folder \o <<"/">> \o i))}}

iq_getiso(iq, env) ==
    Outcome(files, definition, xmppstatus, xmppstatusshow, buildReply(IsoNodesOf(files)), <<>>)

-----------------------------------------------------------------------------
(* process_iq *)

\* a lock that lets rename through: the fault C1_MigrationLock detects
MigrationLockedButRename(action, migrating) ==
    migrating /\ action \notin {"get", "getiso", "rename"}

\* the migration lock of process_iq
MigrationLocked(action, migrating) == migrating /\ action \notin {"get", "getiso"}

process_iq(iq, env) ==
    IF MigrationLocked(iq.action, is_migrating)
    THEN Outcome(files, definition, xmppstatus, xmppstatusshow,
                 build_error_iq(ARCHIPEL_ERROR_CODE_VM_MIGRATING), <<>>)
    ELSE CASE iq.action = "create" -> iq_create(iq, env)
           [] iq.action = "delete" -> iq_delete(iq, env)
           [] iq.action = "get" -> iq_get(iq, env)
           [] iq.action = "getiso" -> iq_getiso(iq, env)
           [] iq.action = "convert" -> iq_convert(iq, env)
           [] iq.action = "rename" -> iq_rename(iq, env)
           [] OTHER -> Outcome(files, definition, xmppstatus, xmppstatusshow, NoReply, <<>>)

-----------------------------------------------------------------------------
(* The requests and the states the model starts from *)

InFolder(name) == folder \o <<"/">> \o name

a_qcow2 == <<"a", ".", "q", "c", "o", "w", "2">>
a_raw == <<"a", ".", "r", "a", "w">>
c_iso == <<"c", ".", "i", "s", "o">>

b_b == <<"b", ".", "b">>

\* the files at start: a qcow2 disk, a raw disk without extension and a raw disk whose
\* extension is also its name in the private folder, an ISO image in the shared folder,
\* a file in the working directory
InitialFiles ==
    [k \in { << <<"v">>, a_qcow2 >>, << <<"v">>, <<"d">> >>, << <<"v">>, b_b >>,
             << <<"i">>, c_iso >>, << <<"w">>, <<"e">> >> } |->
        CASE k = << <<"v">>, a_qcow2 >> -> [magic |-> "qcow", data |-> "d1"]
          [] k = << <<"v">>, b_b >> -> [magic |-> "raw", data |-> "d5"]
          [] k = << <<"v">>, <<"d">> >> -> [magic |-> "raw", data |-> "d2"]
          [] k = << <<"i">>, c_iso >> -> [magic |-> "iso", data |-> "d3"]
          [] k = << <<"w">>, <<"e">> >> -> [magic |-> "text", data |-> "d4"]]

FileDisk(target, file, drvType) == Device("disk", "file", target, TRUE, file, TRUE, drvType)

\* the definition documents at start: none; one with a block device, two disks on the
\* same file, a network interface and a disk without <driver>; one with a disk and an
\* empty CD-ROM drive, which has no <source>
InitialDefinitions ==
    { Undefined,
      Defined(<< Device("disk", "block", "sda", TRUE, None, TRUE, raw),
                 FileDisk("vda", InFolder(a_qcow2), qcow2),
                 Device("interface", "network", "", FALSE, None, FALSE, None),
                 FileDisk("vdb", InFolder(a_qcow2), qcow2),
                 Device("disk", "file", "vdc", TRUE, InFolder(<<"d">>), FALSE, None) >>),
      Defined(<< FileDisk("vda", InFolder(<<"d">>), raw),
                 Device("disk", "file", "hdc", FALSE, None, FALSE, None) >>) }

NoIq == Iq("", None, None, None, None, None, None, None, None)

\* size and unit of the create requests, on both sides of the two limits
SizeSpecs ==
    { << <<"9", "9", "9", "9">>, <<"G">> >>,
      << <<"1", "0", "0", "0", "0">>, <<"G">> >>,
      << <<"1", "0", "0", "0", "0">>, <<"M">> >>,
      << <<"9", "9", "9", "9", "9", "9", "9", "9", "9">>, <<"M">> >>,
      << <<"1", "0", "0", "0", "0", "0", "0", "0", "0", "0">>, <<"M">> >> }

CreateIq(name, spec, format, prealloc) ==
    Iq("create", name, spec[1], spec[2], format, prealloc, None, None, None)

CreateRequests ==
    {CreateIq(n, << <<"1", "0">>, <<"G">> >>, f, None) :
        n \in {<<"a">>, <<"a", ".", "b">>, <<".", ".", "/", "b", " ">>, None},
        f \in {qcow2, raw}}
    \cup {CreateIq(<<"b">>, s, qcow2, metadata) : s \in SizeSpecs}
    \cup {CreateIq(<<"b">>, << <<"x">>, <<"M">> >>, raw, metadata),
          CreateIq(<<"b">>, << <<"1", "0">>, None >>, raw, None),
          CreateIq(<<"b">>, << <<"1", "0">>, <<"G">> >>, None, None)}

ConvertRequests ==
    {Iq("convert", None, None, None, f, None, p, None, None) :
        p \in {InFolder(a_qcow2), InFolder(a_raw), InFolder(<<"d">>), None},
        f \in {qcow2, raw}}
    \cup {Iq("convert", None, None, None, None, None, InFolder(a_qcow2), None, None),
          Iq("convert", None, None, None, qcow2, None, InFolder(b_b), None, None)}

RenameRequests ==
    {Iq("rename", None, None, None, None, None, p, n, None) :
        p \in {InFolder(a_qcow2), InFolder(<<"d">>), iso_base_path \o <<"/">> \o c_iso,
               <<"e">>, None},
        n \in {<<"a">>, <<"b", "/", ".", ".">>}}
    \cup {Iq("rename", None, None, None, None, None, InFolder(a_qcow2), None, None),
          Iq("rename", None, None, None, None, None, <<"/", "w", "/", ".", "/", "e">>,
             <<".">>, None)}

DeleteRequests ==
    {Iq("delete", n, None, None, None, None, None, None, u) :
        n \in {a_qcow2, <<".", ".", "/", "v", "/", "d">>,
               <<".", ".", "/", "i", "/">> \o c_iso, <<".", ".">>, None},
        u \in {yes, None}}
    \cup {Iq("delete", a_qcow2, None, None, None, None, None, None, <<"n", "o">>)}

Requests ==
    CreateRequests \cup ConvertRequests \cup RenameRequests \cup DeleteRequests
    \cup {Iq("get", None, None, None, None, None, None, None, None),
          Iq("getiso", None, None, None, None, None, None, None, None),
          Iq("bogus", None, None, None, None, None, None, None, None)}

\* what the environment decides while a request is handled: the exit code of qemu-img
\* when it can succeed, and whether the hypervisor accepts the definition
Environments == [ret : {0, 1}, defineOk : BOOLEAN]

\* the environments that differ for a handler that runs qemu-img only, one that commits
\* the definition only, and one that does neither
ToolEnvironments == {env \in Environments : env.defineOk}
DefineEnvironments == {env \in Environments : env.ret = 0}
NoEnvironment == [ret |-> 0, defineOk |-> TRUE]

\* the requests of senders without the permission
DeniedRequests ==
    {iq \in Requests : /\ iq.name \in {None, <<"a">>, a_qcow2}
                       /\ iq.path \in {None, InFolder(a_qcow2)}
                       /\ iq.format \in {None, raw}
                       /\ iq.newname \in {None, <<"b">>}
                       /\ iq.undefine \in {None, yes}}

-----------------------------------------------------------------------------
(* The state machine *)

Snapshot ==
    [files |-> files, definition |-> definition, xmppstatus |-> xmppstatus,
     xmppstatusshow |-> xmppstatusshow, is_migrating |-> is_migrating]

Init ==
    /\ files = InitialFiles
    /\ definition \in InitialDefinitions
    /\ xmppstatus = "Running"
    /\ xmppstatusshow = ""
    /\ is_migrating = FALSE
    /\ last = [iq |-> NoIq, env |-> NoEnvironment, permitted |-> FALSE,
               pre |-> [files |-> InitialFiles, definition |-> definition,
                        xmppstatus |-> "Running", xmppstatusshow |-> "",
                        is_migrating |-> FALSE],
               reply |-> NoReply, events |-> <<>>]
    /\ steps = 0

\* a request of a permitted sender is handled to its end
Handle(iq, env) ==
    LET o == process_iq(iq, env)
    IN  /\ files' = o.files
        /\ definition' = o.definition
        /\ xmppstatus' = o.xmppstatus
        /\ xmppstatusshow' = o.xmppstatusshow
        /\ last' = [iq |-> iq, env |-> env, permitted |-> TRUE, pre |-> Snapshot,
                     reply |-> o.reply, events |-> o.events]
        /\ steps' = steps + 1
        /\ UNCHANGED is_migrating

Create == \E iq \in CreateRequests, env \in ToolEnvironments :
    /\ steps < MaxSteps
    /\ Handle(iq, env)

Convert == \E iq \in ConvertRequests, env \in Environments :
    /\ steps < MaxSteps
    /\ Handle(iq, env)

Rename == \E iq \in RenameRequests :
    /\ steps < MaxSteps
    /\ Handle(iq, NoEnvironment)

Delete == \E iq \in DeleteRequests, env \in DefineEnvironments :
    /\ steps < MaxSteps
    /\ Handle(iq, env)

Get ==
    /\ steps < MaxSteps
    /\ Handle(Iq("get", None, None, None, None, None, None, None, None), NoEnvironment)

GetIso ==
    /\ steps < MaxSteps
    /\ Handle(Iq("getiso", None, None, None, None, None, None, None, None), NoEnvironment)

Unknown ==
    /\ steps < MaxSteps
    /\ Handle(Iq("bogus", None, None, None, None, None, None, None, None), NoEnvironment)

\* check_perm raises for a sender without the permission: no handler runs
Denied == \E iq \in DeniedRequests :
    /\ steps < MaxSteps
    /\ steps' = steps + 1
    /\ last' = [iq |-> iq, env |-> NoEnvironment, permitted |-> FALSE, pre |-> Snapshot,
                 reply |-> NoReply, events |-> <<>>]
    /\ UNCHANGED <<files, definition, xmppstatus, xmppstatusshow, is_migrating>>

\* the machine starts or ends a migration
Migrate ==
    /\ steps < MaxSteps
    /\ steps' = steps + 1
    /\ is_migrating' = ~is_migrating
    /\ UNCHANGED <<files, definition, xmppstatus, xmppstatusshow, last>>

Next ==
    \/ Create
    \/ Convert
    \/ Rename
    \/ Delete
    \/ Get
    \/ GetIso
    \/ Unknown
    \/ Denied
    \/ Migrate

Spec == Init /\ [][Next]_vars

-----------------------------------------------------------------------------
(* What the claims speak of *)

\* the last step was a request of a permitted sender with this action
Handled(action) == last.permitted /\ last.iq.action = action

Succeeded == last.reply.type = "result"
Failed == last.reply.type = "error"

PresenceKept ==
    xmppstatus = last.pre.xmppstatus /\ xmppstatusshow = last.pre.xmppstatusshow

NothingChanged ==
    files = last.pre.files /\ definition = last.pre.definition /\ PresenceKept

EndsWith(s, suffix) ==
    Len(s) >= Len(suffix) /\ SubSeq(s, Len(s) - Len(suffix) + 1, Len(s)) = suffix

\* the positions of the <disk> entries of the devices whose source file is path
EntriesOn(devices, path) ==
    {i \in 1..Len(devices) : /\ devices[i].tag = "disk"
                             /\ devices[i].source.present
                             /\ devices[i].source.file = path}

-----------------------------------------------------------------------------
(* C1 *)

\* C1: while the machine is migrating, every create, delete, convert and rename request
\* is answered with the 'machine is migrating' error and changes neither the
\* filesystem, the definition document nor the presence state, and emits nothing; get
\* and getiso requests received during migration get the reply of their own handler.
C1_MigrationLock ==
    last.permitted /\ last.pre.is_migrating =>
        /\ last.iq.action \in {"create", "delete", "convert", "rename"} =>
              /\ last.reply = build_error_iq(ARCHIPEL_ERROR_CODE_VM_MIGRATING)
              /\ NothingChanged
              /\ last.events = <<>>
        /\ last.iq.action = "get" =>
              /\ last.reply = buildReply(DiskNodesOf(last.pre.files))
              /\ NothingChanged
        /\ last.iq.action = "getiso" =>
              /\ last.reply = buildReply(IsoNodesOf(last.pre.files))
              /\ NothingChanged

\* a delete of a file that exists, received while the machine is migrating
C1_Witness ==
    /\ Handled("delete")
    /\ last.pre.is_migrating
    /\ IsFile(last.pre.files, DeletePath(last.iq.name))
    /\ Failed

-----------------------------------------------------------------------------
(* C2 *)

\* the request carries the attributes its destination path is computed from
HasDestination(iq) ==
    CASE iq.action = "create" -> iq.name # None /\ iq.format # None
      [] iq.action = "convert" -> iq.path # None /\ iq.format # None
      [] iq.action = "rename" -> iq.path # None /\ iq.newname # None
      [] OTHER -> FALSE

Destination(iq) ==
    CASE iq.action = "create" -> CreatePath(iq.name, iq.format)
      [] iq.action = "convert" -> ConvertPath(iq.path, iq.format)
      [] iq.action = "rename" -> RenamePath(iq.path, iq.newname)

\* C2: for create, rename and convert, whenever a file already exists at the computed
\* destination path the request gets an error reply and the filesystem and the
\* definition document are as before the request; and no file that existed before one
\* of these requests has another content after it.
C2_NoOverwrite ==
    last.permitted /\ last.iq.action \in {"create", "rename", "convert"} =>
        /\ HasDestination(last.iq) /\ IsFile(last.pre.files, Destination(last.iq)) =>
              /\ Failed
              /\ files = last.pre.files
              /\ definition = last.pre.definition
        /\ \A k \in DOMAIN last.pre.files \cap DOMAIN files : files[k] = last.pre.files[k]

\* a create whose destination exists, with a size within the limits, outside a migration
C2_Witness ==
    /\ Handled("create")
    /\ ~last.pre.is_migrating
    /\ HasDestination(last.iq)
    /\ IsFile(last.pre.files, Destination(last.iq))
    /\ last.iq.unit = <<"G">> /\ last.iq.size = <<"1", "0">>
    /\ Failed

-----------------------------------------------------------------------------
(* C3 *)

\* C3: after any convert or delete request has been replied to, with success or with an
\* error, the presence state (status text, status level) equals the value it had when
\* the request was received.
C3_PresenceRestored ==
    /\ last.permitted
    /\ last.iq.action \in {"convert", "delete"}
    /\ last.reply.type \in {"result", "error"}
    => PresenceKept

-----------------------------------------------------------------------------
(* C4 *)

\* C4: after a delete request with undefine=yes that gets a success reply, the
\* definition document contains no disk entry whose source file equals the deleted
\* path, however many entries referenced it before.
C4_UndefineRemovesAll ==
    Handled("delete") /\ last.iq.undefine = yes /\ Succeeded =>
        EntriesOn(definition.devices, DeletePath(last.iq.name)) = {}

\* a successful delete with undefine=yes of a file two entries referenced
C4_Witness ==
    /\ Handled("delete") /\ last.iq.undefine = yes /\ Succeeded
    /\ Cardinality(EntriesOn(last.pre.definition.devices, DeletePath(last.iq.name))) >= 2
    /\ ~IsFile(files, DeletePath(last.iq.name))

-----------------------------------------------------------------------------
(* C5 *)

\* C5: a delete request whose undefine flag is absent or not 'yes' leaves the definition
\* document unchanged and commits nothing, even though the file is removed and entries
\* may still reference it.
C5_DeleteKeepsDefinition ==
    Handled("delete") /\ last.iq.undefine # yes =>
        /\ definition = last.pre.definition
        /\ Range(last.events) \cap {"define", "defineXML", "define failed", "defineXML failed",
                                    "push_change virtualmachine:definition defined"} = {}

\* a successful delete without undefine of a file that an entry still references
C5_Witness ==
    /\ Handled("delete") /\ last.iq.undefine = None /\ Succeeded
    /\ IsFile(last.pre.files, DeletePath(last.iq.name))
    /\ ~IsFile(files, DeletePath(last.iq.name))
    /\ EntriesOn(definition.devices, DeletePath(last.iq.name)) # {}

-----------------------------------------------------------------------------
(* C6 *)

\* C6: after a convert request from format X to format Y that gets a success reply, the
\* source file no longer exists, a file with Y's extension exists at the destination,
\* and any definition entry that previously pointed at the source now points at the
\* destination with driver-type Y.
C6_ConvertRetargetsAll ==
    Handled("convert") /\ Succeeded =>
        LET path == last.iq.path
            format == last.iq.format
            dest == ConvertPath(path, format)
        IN  /\ ~IsFile(files, path)
            /\ IsFile(files, dest)
            /\ EndsWith(dest, <<".">> \o format)
            /\ \A i \in EntriesOn(last.pre.definition.devices, path) :
                  /\ definition.devices[i].source.file = dest
                  /\ definition.devices[i].driver.present
                  /\ definition.devices[i].driver.type = format

-----------------------------------------------------------------------------
(* C7 *)

\* the positions at which the devices differ after the last request
ChangedEntries ==
    {i \in 1..Len(last.pre.definition.devices) :
        i > Len(definition.devices)
        \/ definition.devices[i] # last.pre.definition.devices[i]}

\* C7: a convert request modifies at most one definition device entry, the first disk
\* entry whose source file equals the source path, changes only that entry's source-file
\* and driver-type attributes, and leaves every entry whose source file differs from the
\* source path, and the order of the entries, unchanged.
C7_ConvertTouchesOneEntry ==
    Handled("convert") =>
        LET before == last.pre.definition.devices
            after == definition.devices
        IN  /\ definition.defined = last.pre.definition.defined
            /\ Len(after) = Len(before)
            /\ Cardinality(ChangedEntries) <= 1
            /\ \A i \in ChangedEntries :
                  /\ i \in EntriesOn(before, last.iq.path)
                  /\ \A j \in EntriesOn(before, last.iq.path) : i <= j
                  /\ after[i] = [before[i] EXCEPT !.source.file = after[i].source.file,
                                                  !.driver.type = after[i].driver.type]

\* a successful convert of a file two entries referenced, one of which was rewritten
C7_Witness ==
    /\ Handled("convert") /\ Succeeded
    /\ Cardinality(EntriesOn(last.pre.definition.devices, last.iq.path)) >= 2
    /\ ChangedEntries # {}

-----------------------------------------------------------------------------
(* C8 *)

\* the request asks for a size at or above the limit of its unit
AtOrAboveLimit(iq) ==
    /\ IsInt(iq.size)
    /\ \/ iq.unit = <<"M">> /\ ParseInt(iq.size) >= 1000000000
       \/ iq.unit = <<"G">> /\ ParseInt(iq.size) >= 10000

\* C8: for all create requests with unit M and size >= 1,000,000,000, or unit G and
\* size >= 10,000, the reply is an error, the image tool is never invoked, no file is
\* created and no notification is broadcast.
C8_TooBigRejected ==
    Handled("create") /\ AtOrAboveLimit(last.iq) =>
        /\ Failed
        /\ last.events = <<>>
        /\ files = last.pre.files

\* a create at the limit that nothing else stands against: no migration, a name and a
\* format, a destination that is free
C8_Witness ==
    /\ Handled("create") /\ AtOrAboveLimit(last.iq)
    /\ ~last.pre.is_migrating
    /\ HasDestination(last.iq)
    /\ ~Exists(last.pre.files, Destination(last.iq))
    /\ last.reply = build_error_iq(ARCHIPEL_ERROR_CODE_DRIVES_CREATE)

-----------------------------------------------------------------------------
(* C9 *)

\* C9: after a create request with name n and format f gets a success reply, a get
\* request that follows it lists a disk whose name is the created disk's name and whose
\* format is f, for every accepted name (including names that contain a '.').
C9_CreateThenGet ==
    Handled("create") /\ Succeeded =>
        \E node \in iq_get(NoIq, NoEnvironment).reply.payload :
            /\ node.name = Sanitize(last.iq.name)
            /\ node.format = last.iq.format

-----------------------------------------------------------------------------
(* C10 *)

\* the extension of a path: what follows the last "." of its last segment, if any
Extension(path) ==
    LET segment == SplitLast(path, <<"/">>)
    IN  IF "." \in Range(segment) THEN SplitLast(segment, <<".">>) ELSE <<>>

\* C10: after a rename request of an existing path p to new name n gets a success reply,
\* a file named sanitize(n) followed by '.' and the extension of p exists in the private
\* folder with the content p had, and no file exists at p any more; all other files are
\* unchanged.
C10_RenameKeepsExtension ==
    Handled("rename") /\ Succeeded =>
        LET p == Resolve(last.iq.path).at
            dest == folder \o <<"/">> \o Sanitize(last.iq.newname) \o <<".">>
                        \o Extension(last.iq.path)
            d == Resolve(dest).at
        IN  /\ IsFile(files, dest)
            /\ files[d] = last.pre.files[p]
            /\ ~IsFile(files, last.iq.path)
            /\ DOMAIN files = (DOMAIN last.pre.files \ {p}) \cup {d}
            /\ \A k \in DOMAIN last.pre.files \ {p} : files[k] = last.pre.files[k]

-----------------------------------------------------------------------------
(* C11 *)

RecognizedActions == {"create", "delete", "get", "getiso", "convert", "rename"}

\* the code reserved for the errors of an action
ReservedCode(action) ==
    CASE action = "create" -> -3001
      [] action = "delete" -> -3002
      [] action = "get" -> -3003
      [] action = "getiso" -> -3004
      [] action = "convert" -> -3005
      [] action = "rename" -> -3006

\* the request lacks an attribute its handler reads a string from
MissingParameter(iq) ==
    CASE iq.action = "create" -> iq.name = None \/ iq.format = None
      [] iq.action = "delete" -> iq.name = None
      [] iq.action = "convert" -> iq.path = None \/ iq.format = None
      [] iq.action = "rename" -> iq.path = None \/ iq.newname = None
      [] OTHER -> FALSE

\* a step of the handler of the last request failed: a parameter is missing, the
\* validation rejects the request, the image tool was run and did not exit with 0, or
\* the file to unlink or to rename is not there
StepFailed ==
    \/ MissingParameter(last.iq)
    \/ /\ ~MissingParameter(last.iq)
       /\ \/ Handled("create") /\ AtOrAboveLimit(last.iq)
          \/ HasDestination(last.iq) /\ Exists(last.pre.files, Destination(last.iq))
          \/ /\ Range(last.events) \cap {"qemu-img create", "qemu-img convert",
                                         "qemu-img create -o preallocation=metadata"} # {}
             /\ last.env.ret # 0
          \/ Handled("delete") /\ ~IsFile(last.pre.files, DeletePath(last.iq.name))
          \/ Handled("rename") /\ ~IsFile(last.pre.files, last.iq.path)

-----------------------------------------------------------------------------
(* C12 *)

\* the disk notification, the 'disk changed' signals, the definition-changed signal and
\* the commits of the definition document that succeeded
Emissions ==
    {"shout disk", "push_change disk created", "push_change disk converted",
     "push_change disk renamed", "push_change disk deleted",
     "push_change virtualmachine:definition defined", "define", "defineXML"}

Emitted == Range(last.events) \cap Emissions

\* C12: a disk notification, a 'disk changed' signal, a definition-changed signal or a
\* commit of the definition document is emitted during a request only if the reply of
\* that request is a success; a request that ends in an error reply has emitted none.
C12_EmitOnlyOnSuccess ==
    /\ Emitted # {} => Succeeded
    /\ Failed => Emitted = {}

\* a convert that fails after the tool has run and the source has been unlinked
C12_Witness ==
    /\ Handled("convert") /\ Failed
    /\ \E i \in 1..Len(last.events) : last.events[i] = "unlink"
    /\ ~IsFile(files, last.iq.path)

-----------------------------------------------------------------------------
(* C13 *)

\* s holds the two-character sequence ".."
HasDotDot(s) == \E i \in 1..(Len(s) - 1) : s[i] = "." /\ s[i + 1] = "."

\* the files that are there after the last request and were not before it
NewFiles == DOMAIN files \ DOMAIN last.pre.files

\* the file at key k is an entry of the private folder
InPrivateFolder(k) == k # <<>> /\ Front(k) = Resolve(folder).at

\* C13: for every create request and every rename request, the sanitized name holds no
\* path separator and no '..' sequence, and the file that is created, or the destination
\* of the rename, is located inside the private folder of the machine.
C13_StaysInFolder ==
    /\ Handled("create") /\ last.iq.name # None =>
          "/" \notin Range(Sanitize(last.iq.name)) /\ ~HasDotDot(Sanitize(last.iq.name))
    /\ Handled("rename") /\ last.iq.newname # None =>
          "/" \notin Range(Sanitize(last.iq.newname)) /\ ~HasDotDot(Sanitize(last.iq.newname))
    /\ last.permitted /\ last.iq.action \in {"create", "rename"} =>
          \A k \in NewFiles : InPrivateFolder(k)

-----------------------------------------------------------------------------
(* C14 *)

\* the file named name in the directory dir is classified as ISO 9660 by file(1)
IsIso9660(fs, dir, name) ==
    LET r == Resolve(dir)
    IN  /\ r.ok
        /\ Append(r.at, name) \in DOMAIN fs
        /\ fs[Append(r.at, name)].magic = "iso"

\* the payload holds a descriptor for the entry name of the directory dir
Describes(payload, dir, name) ==
    \E node \in payload :
        /\ node.name = name
        /\ Resolve(node.path).ok
        /\ Resolve(node.path).at = Append(Resolve(dir).at, name)

\* C14: getiso returns a descriptor for an entry of the private folder, with a path in
\* the private folder, exactly when that file of the private folder is itself classified
\* as ISO 9660, and a descriptor for an entry of the shared ISO folder, with a path in the
\* shared folder, exactly when that file of the shared folder is classified as ISO 9660.
C14_GetIsoBothFolders ==
    Handled("getiso") /\ Succeeded =>
        /\ \A name \in Ls(files, folder) :
              Describes(last.reply.payload, folder, name) <=> IsIso9660(files, folder, name)
        /\ \A name \in Ls(files, shared_isos_folder) :
              Describes(last.reply.payload, shared_isos_folder, name)
                  <=> IsIso9660(files, shared_isos_folder, name)

-----------------------------------------------------------------------------
(* C15 *)

\* C15: get and getiso change neither the filesystem, the definition document nor the
\* presence state, and the same request made again right after, with no mutating
\* request in between, returns the same set of descriptors.
C15_ListingsReadOnly ==
    /\ Handled("get") =>
          /\ NothingChanged
          /\ iq_get(last.iq, last.env).reply = last.reply
    /\ Handled("getiso") =>
          /\ NothingChanged
          /\ iq_getiso(last.iq, last.env).reply = last.reply

\* a get that listed a disk, and a getiso that listed an image
C15_Witness ==
    \/ Handled("get") /\ Succeeded /\ last.reply.payload # {}
    \/ Handled("getiso") /\ Succeeded /\ last.reply.payload # {}

-----------------------------------------------------------------------------
(* C16 *)

\* position of the first call named e among the calls of the last request, 0 if none
FirstEvent(e) ==
    LET at == {i \in 1..Len(last.events) : last.events[i] = e}
    IN  IF at = {} THEN 0 ELSE CHOOSE i \in at : \A j \in at : i <= j

\* the image tool was run by the last request and returned a non-zero exit code
ConvertToolFailed ==
    /\ FirstEvent("qemu-img convert") # 0
    /\ \/ last.env.ret # 0
       \/ ~ConvertCanSucceed(last.pre.files, last.iq.path, last.iq.format,
                             ConvertPath(last.iq.path, last.iq.format))

\* C16: in convert, the source file is unlinked and the definition document is touched
\* only after the image tool returned exit code 0: when the tool returns a non-zero code
\* the reply is the convert error, the source file still exists, and the definition
\* document is unchanged and not committed.
C16_ConvertToolFirst ==
    Handled("convert") =>
        /\ \A e \in {"unlink", "define", "define failed"} :
              FirstEvent(e) # 0 =>
                  /\ FirstEvent("qemu-img convert") # 0
                  /\ FirstEvent("qemu-img convert") < FirstEvent(e)
                  /\ ~ConvertToolFailed
        /\ definition # last.pre.definition =>
              FirstEvent("qemu-img convert") # 0 /\ ~ConvertToolFailed
        /\ ConvertToolFailed =>
              /\ last.reply = [type |-> "error", code |-> -3005, payload |-> {}]
              /\ IsFile(last.pre.files, last.iq.path) =>
                    /\ IsFile(files, last.iq.path)
                    /\ files[Resolve(last.iq.path).at] = last.pre.files[Resolve(last.iq.path).at]
              /\ definition = last.pre.definition
              /\ FirstEvent("define") = 0 /\ FirstEvent("define failed") = 0

\* a convert of a disk that an entry of the definition references, to a destination that
\* is free, for which the tool returns a non-zero code
C16_Witness ==
    /\ Handled("convert")
    /\ ConvertToolFailed
    /\ last.env.ret # 0
    /\ IsFile(files, last.iq.path)
    /\ EntriesOn(definition.devices, last.iq.path) # {}
    /\ ~Exists(last.pre.files, ConvertPath(last.iq.path, last.iq.format))
    /\ Failed

-----------------------------------------------------------------------------
(* C17 *)

\* the position of the last c in s, 0 if there is none
LastIndexOf(s, c) ==
    LET at == {i \in 1..Len(s) : s[i] = c}
    IN  IF at = {} THEN 0 ELSE CHOOSE i \in at : \A j \in at : j <= i

\* the directory part of a path, and the last segment without its extension
DirectoryOf(p) == SubSeq(p, 1, LastIndexOf(p, "/"))
BaseNameOf(p) ==
    LET segment == SubSeq(p, LastIndexOf(p, "/") + 1, Len(p))
    IN  IF LastIndexOf(segment, ".") = 0 THEN segment
        ELSE SubSeq(segment, 1, LastIndexOf(segment, ".") - 1)

\* C17: for every source path and target format, the destination path computed by
\* convert equals the source path with only its final extension (the text after the last
\* '.') replaced by the target format: same directory and same base name, also when the
\* text of the extension occurs elsewhere in the path.
C17_ConvertPathKeepsName ==
    Handled("convert") /\ last.iq.path # None /\ last.iq.format # None =>
        LET path == last.iq.path
            dest == ConvertPath(path, last.iq.format)
            kept == SubSeq(path, 1, LastIndexOf(path, "."))
        IN  /\ LastIndexOf(path, ".") # 0 =>
                  /\ dest = kept \o last.iq.format
                  /\ Succeeded => IsFile(files, kept \o last.iq.format)
            /\ DirectoryOf(dest) = DirectoryOf(path)
            /\ BaseNameOf(dest) = BaseNameOf(path)

-----------------------------------------------------------------------------
(* C18 *)

\* the files that were there before the last request and are not after it
RemovedFiles == DOMAIN last.pre.files \ DOMAIN files

\* C18: for every name given to delete (names with '/' separators and '..' segments
\* included), the only file a delete request can remove is the entry of the private
\* folder named by the last '/'-separated segment of the name; no file outside the
\* private folder is ever removed.
C18_DeleteOnlyInFolder ==
    Handled("delete") =>
        /\ \A k \in RemovedFiles :
              /\ last.iq.name # None
              /\ k = Append(Resolve(folder).at, SplitLast(last.iq.name, <<"/">>))
              /\ InPrivateFolder(k)
        /\ NewFiles = {}
        /\ \A k \in DOMAIN files : files[k] = last.pre.files[k]

\* a delete whose name has a '/' and a '..' segment and that removed a file
C18_Witness ==
    /\ Handled("delete") /\ Succeeded
    /\ "/" \in Range(last.iq.name)
    /\ HasDotDot(last.iq.name)
    /\ RemovedFiles # {}

-----------------------------------------------------------------------------
(* C19 *)

\* the last request removed at least one entry from the devices of the definition
EntryRemoved == Len(definition.devices) < Len(last.pre.definition.devices)

\* the last request committed the definition document / broadcast the
\* definition-changed signal
Committed == FirstEvent("defineXML") # 0
DefinitionSignalled == FirstEvent("push_change virtualmachine:definition defined") # 0

\* C19: in delete, the definition document is committed and the definition-changed
\* signal is broadcast if and only if the undefine flag is 'yes' and at least one device
\* entry was removed; both happen only after the file has been unlinked, so a delete
\* whose unlink fails never changes or commits the definition document.
C19_DeleteCommitsIffRemoved ==
    Handled("delete") =>
        /\ Committed <=> (last.iq.undefine = yes /\ EntryRemoved)
        /\ DefinitionSignalled <=> (last.iq.undefine = yes /\ EntryRemoved)
        /\ Committed \/ DefinitionSignalled =>
              /\ FirstEvent("unlink") # 0
              /\ Committed => FirstEvent("unlink") < FirstEvent("defineXML")
              /\ DefinitionSignalled =>
                    FirstEvent("unlink")
                        < FirstEvent("push_change virtualmachine:definition defined")
        /\ FirstEvent("unlink") = 0 =>
              definition = last.pre.definition /\ ~Committed /\ ~DefinitionSignalled

-----------------------------------------------------------------------------
(* C20 *)

\* C20: a rename request never changes or commits the definition document, whether it
\* succeeds or fails: the entries that referenced the old path still reference it after
\* the rename.
C20_RenameKeepsDefinition ==
    Handled("rename") =>
        /\ definition = last.pre.definition
        /\ Range(last.events) \cap {"define", "define failed", "defineXML", "defineXML failed",
                                    "push_change virtualmachine:definition defined"} = {}
        /\ last.iq.path # None =>
              EntriesOn(definition.devices, last.iq.path)
                  = EntriesOn(last.pre.definition.devices, last.iq.path)

\* a successful rename of a disk that entries of the definition reference
C20_Witness ==
    /\ Handled("rename") /\ Succeeded
    /\ ~IsFile(files, last.iq.path)
    /\ EntriesOn(definition.devices, last.iq.path) # {}

====
